---- MODULE Spec2Model ----
(***************************************************************************)
(* Order ledger of the food-ordering backend (src/app.py).                 *)
(*                                                                         *)
(* The database tables users, dishes, cart and orders are the state.  Each *)
(* web request opens its own connection; every SELECT runs in autocommit   *)
(* mode and the INSERT/UPDATE/DELETE statements of one request up to its   *)
(* conn.commit() form one atomic write transaction.  A handler is therefore*)
(* one action per database access: its reads, then its write.  The arrival *)
(* of a request (role guard, form parsing) touches no shared state and is   *)
(* part of the handler's first database action.                            *)
(***************************************************************************)
EXTENDS Integers, Sequences, FiniteSets, Bags, TLC

\* ---------------------------------------------------------------- bounds
MaxInFlight == 2      \* requests that may be in flight together
MaxClock == 1         \* seconds the wall clock may advance
MaxQty == 2           \* largest quantity of one cart row
MaxDishId == 2        \* dish ids handed out by AUTOINCREMENT
MaxCartId == 2        \* cart row ids handed out by AUTOINCREMENT

DishNames == {"dosa"}             \* names offered to admin add-dish
Prices == {<<"5">>}                 \* price texts offered to admin add-dish
FreeStatuses == {"delivered"}     \* free-text status values of the forms
PartnerNames == {"deliveryman", "ghost"} \* delivery_user values of the form

\* price texts of the admin add-dish form, the ill-formed ones included
FormPrices == {<<"5">>, <<"-", "5">>, <<"x">>}

NULL == "NULL"                    \* SQL NULL / Python None

\* users: the accounts (fixed: the two seeded ones and the customers who
\* registered); dishes, cart: sets of rows; orders: the ledger, row i having
\* id i; seq: sqlite_sequence, the last id AUTOINCREMENT handed out per
\* table; now: the wall clock in seconds; rq: the bag of requests in flight,
\* each with its position and locals; out: the response of the request that
\* completed in the last step.
VARIABLES users, dishes, cart, orders, seq, now, rq, out

vars == <<users, dishes, cart, orders, seq, now, rq, out>>

db == <<users, dishes, cart, orders, seq>>

\* ------------------------------------------------------------- sessions
Guest == [user_id |-> 0, username |-> NULL, role |-> NULL]

initial_users ==
    { [user_id |-> 1, username |-> "admin", role |-> "admin"],
      [user_id |-> 2, username |-> "deliveryman", role |-> "delivery"] }

\* rows that register inserts: role 'customer' always
registered_users ==
    { [user_id |-> 3, username |-> "alice", role |-> "customer"],
      [user_id |-> 4, username |-> "bob", role |-> "customer"] }

\* A session is what login stored: the row of an existing user, or nothing.
Sessions == users \cup {Guest}

\* a guard that lets every session through
has_role_Any(s, required_role) == TRUE

has_role(s, required_role) == s.role = required_role

is_staff(s) == has_role(s, "admin") \/ has_role(s, "delivery")

\* `not session.get("user_id") or is_staff()` is false
IsCustomer(s) == s.user_id # 0 /\ ~is_staff(s)

\* ------------------------------------------------------- request records
\* pc: the database access the request is about to make; the other fields
\* are the handler's local variables (0, NULL, <<>> when unused).
Local ==
    [pc |-> "none", user_id |-> 0, username |-> NULL, order_id |-> 0,
     val |-> NULL, total |-> 0, ts |-> 0, cart_id |-> 0, dish_id |-> 0,
     idx |-> 0, cart_items |-> <<>>, dish_items |-> <<>>, st |-> NULL,
     dp |-> NULL]

InFlight == BagToSet(rq)

Room == BagCardinality(rq) < MaxInFlight

Begin(q) == rq (+) SetToBag({q})

Finish(q) == rq (-) SetToBag({q})

Move(q, q2) == (rq (-) SetToBag({q})) (+) SetToBag({q2})

\* A request answered: the handler, the session it answers (user id 0:
\* nobody logged in), what it flashed or rendered (kind), the order id of
\* the route or redirect (ref), the form value (val), and the rendered order
\* page.
NoOut ==
    [op |-> "none", to |-> 0, kind |-> "none", ref |-> 0, val |-> NULL,
     page |-> <<>>]

Reply(op, s, kind) == [NoOut EXCEPT !.op = op, !.to = s.user_id, !.kind = kind]

ReplyRef(op, user_id, kind, ref, val) ==
    [NoOut EXCEPT !.op = op, !.to = user_id, !.kind = kind, !.ref = ref,
                  !.val = val]

\* ------------------------------------------------------------- helpers
Max(S) == CHOOSE x \in S : \A y \in S : y <= x

Min(S) == CHOOSE x \in S : \A y \in S : x <= y

\* rows of a table in rowid order
RECURSIVE ById(_)
ById(S) ==
    IF S = {} THEN <<>>
    ELSE LET first == CHOOSE x \in S : \A y \in S : x.id <= y.id
         IN  <<first>> \o ById(S \ {first})

RECURSIVE SumTotal(_)
SumTotal(items) ==
    IF items = <<>> THEN 0 ELSE Head(items).total + SumTotal(Tail(items))

OrderIds == 1..Len(orders)

\* order_id values of the routes: ids of rows and ids of no row
OrderRefs == 1..MaxCartId

Init ==
    /\ users = initial_users \cup registered_users
    /\ dishes = {}
    /\ cart = {}
    /\ orders = <<>>
    /\ seq = [dishes |-> 0, cart |-> 0]
    /\ now = 0
    /\ rq = EmptyBag
    /\ out = NoOut

\* the last response has been taken: the next database access may happen
Ready == out = NoOut

\* --------------------------------------------------------------- clock
\* datetime.now() at one-second resolution; the clock only moves forward.
Tick ==
    /\ Ready
    /\ now < MaxClock
    /\ now' = now + 1
    /\ UNCHANGED <<db, rq, out>>

\* the client takes the response
Deliver ==
    /\ out # NoOut
    /\ out' = NoOut
    /\ UNCHANGED <<db, now, rq>>

\* -------------------------------------------------------- admin: menu
\* float(price) of a text of characters: an optional sign and decimal digits
\* give the number; any other text raises ValueError.
DigitValue ==
    [c \in {"0", "1", "2", "3", "4", "5", "6", "7", "8", "9"} |->
        CASE c = "0" -> 0 [] c = "1" -> 1 [] c = "2" -> 2 [] c = "3" -> 3
          [] c = "4" -> 4 [] c = "5" -> 5 [] c = "6" -> 6 [] c = "7" -> 7
          [] c = "8" -> 8 [] c = "9" -> 9]

IsDigits(text) ==
    text # <<>> /\ \A k \in 1..Len(text) : text[k] \in DOMAIN DigitValue

RECURSIVE DigitsValue(_)
DigitsValue(text) ==
    IF text = <<>> THEN 0
    ELSE 10 * DigitsValue(SubSeq(text, 1, Len(text) - 1))
         + DigitValue[text[Len(text)]]

\* float(price) returns (no ValueError)
IsFloat(text) ==
    \/ IsDigits(text)
    \/ text # <<>> /\ Head(text) \in {"-", "+"} /\ IsDigits(Tail(text))

float(text) ==
    IF IsDigits(text) THEN DigitsValue(text)
    ELSE IF Head(text) = "-" THEN 0 - DigitsValue(Tail(text))
    ELSE DigitsValue(Tail(text))

\* price: the text of the form field
admin_menu(s, name, price) ==
    /\ Ready
    /\ IF ~has_role(s, "admin")
       THEN /\ out' = Reply("admin_menu", s, "denied")
            /\ UNCHANGED <<dishes, seq>>
       ELSE IF ~IsFloat(price)
       THEN /\ out' = Reply("admin_menu", s, "InvalidPrice")
            /\ UNCHANGED <<dishes, seq>>
       ELSE /\ seq.dishes < MaxDishId
            /\ dishes' = dishes \cup
                  { [id |-> seq.dishes + 1, name |-> name, price |-> float(price)] }
            /\ seq' = [seq EXCEPT !.dishes = @ + 1]
            /\ out' = Reply("admin_menu", s, "added")
    /\ UNCHANGED <<users, cart, orders, now, rq>>

admin_delete_dish(s, dish_id) ==
    /\ Ready
    /\ IF ~has_role(s, "admin")
       THEN /\ out' = Reply("admin_delete_dish", s, "denied")
            /\ UNCHANGED dishes
       ELSE /\ dishes' = {d \in dishes : d.id # dish_id}
            /\ out' = Reply("admin_delete_dish", s, "deleted")
    /\ UNCHANGED <<users, cart, orders, seq, now, rq>>

\* --------------------------------------------------------------- cart
\* SELECT id, quantity FROM cart WHERE user_id=? AND dish_id=?; fetchone():
\* the id of the first matching row, 0 for None.
CartItemOf(user_id, dish_id) ==
    LET hit == {c.id : c \in {x \in cart : x.user_id = user_id /\ x.dish_id = dish_id}}
    IN  IF hit = {} THEN 0 ELSE Min(hit)

QuantityOf(cart_id) ==
    LET hit == {c \in cart : c.id = cart_id}
    IN  IF hit = {} THEN 0 ELSE (CHOOSE c \in hit : TRUE).quantity

\* the model's caps on the cart's counters
CartRoom(cart_id) ==
    IF cart_id = 0 THEN seq.cart < MaxCartId ELSE QuantityOf(cart_id) < MaxQty

\* UPDATE cart SET quantity = quantity + 1 WHERE id=?   (cart_item found)
\* INSERT INTO cart (user_id, dish_id, quantity) VALUES (?, ?, 1)
CartAdded(user_id, dish_id, cart_id) ==
    IF cart_id # 0
    THEN { IF c.id = cart_id THEN [c EXCEPT !.quantity = @ + 1] ELSE c : c \in cart }
    ELSE cart \cup { [id |-> seq.cart + 1, user_id |-> user_id,
                      dish_id |-> dish_id, quantity |-> 1] }

SeqAdded(cart_id) == IF cart_id # 0 THEN seq ELSE [seq EXCEPT !.cart = @ + 1]

add_to_cart(s, dish_id) ==
    /\ Ready
    /\ IF ~IsCustomer(s)
       THEN /\ out' = Reply("add_to_cart", s, "denied")
            /\ UNCHANGED <<cart, seq>>
       ELSE /\ CartRoom(CartItemOf(s.user_id, dish_id))
            /\ cart' = CartAdded(s.user_id, dish_id, CartItemOf(s.user_id, dish_id))
            /\ seq' = SeqAdded(CartItemOf(s.user_id, dish_id))
            /\ out' = Reply("add_to_cart", s, "added")
    /\ UNCHANGED <<users, dishes, orders, now, rq>>

add_to_cart_read(s, dish_id) ==
    /\ Ready
    /\ IF ~IsCustomer(s)
       THEN /\ out' = Reply("add_to_cart", s, "denied")
            /\ UNCHANGED rq
       ELSE /\ Room
            /\ CartRoom(CartItemOf(s.user_id, dish_id))
            /\ rq' = Begin([Local EXCEPT !.pc = "add_write",
                                         !.user_id = s.user_id,
                                         !.dish_id = dish_id,
                                         !.cart_id = CartItemOf(s.user_id, dish_id)])
            /\ UNCHANGED out
    /\ UNCHANGED <<db, now>>

add_to_cart_write(q) ==
    /\ Ready
    /\ q.pc = "add_write"
    /\ CartRoom(q.cart_id)
    /\ cart' = CartAdded(q.user_id, q.dish_id, q.cart_id)
    /\ seq' = SeqAdded(q.cart_id)
    /\ rq' = Finish(q)
    /\ out' = ReplyRef("add_to_cart", q.user_id, "added", 0, NULL)
    /\ UNCHANGED <<users, dishes, orders, now>>

remove_from_cart(s, cart_id) ==
    /\ Ready
    /\ IF ~IsCustomer(s)
       THEN /\ out' = Reply("remove_from_cart", s, "denied")
            /\ UNCHANGED cart
       ELSE /\ cart' = {c \in cart : ~(c.id = cart_id /\ c.user_id = s.user_id)}
            /\ out' = Reply("remove_from_cart", s, "removed")
    /\ UNCHANGED <<users, dishes, orders, seq, now, rq>>

\* ------------------------------------------------------------ checkout
\* SELECT dish_id, quantity FROM cart WHERE user_id=?
CartItems(user_id) ==
    LET rows == ById({c \in cart : c.user_id = user_id})
    IN  [i \in 1..Len(rows) |->
            [dish_id |-> rows[i].dish_id, quantity |-> rows[i].quantity]]

\* One pass of the loop over cart_items: SELECT price, name FROM dishes WHERE
\* id=?; a cart row whose dish is gone adds nothing.
DishItem(item) ==
    LET hit == {d \in dishes : d.id = item.dish_id}
    IN  IF hit = {} THEN <<>>
        ELSE LET dish == CHOOSE d \in hit : TRUE
             IN  << [dish_id |-> item.dish_id, dish_name |-> dish.name,
                     quantity |-> item.quantity,
                     total |-> dish.price * item.quantity] >>

\* the whole loop, nothing else writing meanwhile
RECURSIVE DishItems(_)
DishItems(cart_items) ==
    IF cart_items = <<>> THEN <<>>
    ELSE DishItem(Head(cart_items)) \o DishItems(Tail(cart_items))

\* The rows the INSERT loop appends to a ledger of n rows.  ev is not a
\* column: it names the checkout that inserted the row, by its first id.
NewOrders(n, user_id, dish_items, grand_total, current_time) ==
    [i \in 1..Len(dish_items) |->
        [id |-> n + i, user_id |-> user_id,
         dish_id |-> dish_items[i].dish_id,
         dish_name |-> dish_items[i].dish_name,
         quantity |-> dish_items[i].quantity,
         total |-> dish_items[i].total,
         status |-> "placed", delivery_partner |-> NULL,
         total_price |-> grand_total, timestamp |-> current_time,
         ev |-> n + 1]]

\* the statement without its WHERE clause: DELETE FROM cart
ClearCart_All(user_id) == {}

\* DELETE FROM cart WHERE user_id=?
ClearCart(user_id) == {c \in cart : c.user_id # user_id}

\* first_order_id: lastrowid of the first INSERT, None (0) without one; the
\* redirect to payment_success then carries no order id.
FirstOrderId(n, dish_items) == IF dish_items = <<>> THEN 0 ELSE n + 1

\* the handler without its `if not cart_items` return
NoItems_Never(cart_items) == FALSE

\* `if not cart_items`
NoItems(cart_items) == cart_items = <<>>

place_order_auto(s) ==
    /\ Ready
    /\ IF ~IsCustomer(s)
       THEN /\ out' = Reply("place_order_auto", s, "denied")
            /\ UNCHANGED <<orders, cart>>
       ELSE IF NoItems(CartItems(s.user_id))
       THEN /\ out' = Reply("place_order_auto", s, "EmptyCart")
            /\ UNCHANGED <<orders, cart>>
       ELSE LET dish_items == DishItems(CartItems(s.user_id))
            IN  /\ orders' = orders \o
                      NewOrders(Len(orders), s.user_id, dish_items,
                                SumTotal(dish_items), now)
                /\ cart' = ClearCart(s.user_id)
                /\ out' = ReplyRef("place_order_auto", s.user_id, "payment_success",
                                   FirstOrderId(Len(orders), dish_items), NULL)
    /\ UNCHANGED <<users, dishes, seq, now, rq>>

place_order_auto_cart(s) ==
    /\ Ready
    /\ IF ~IsCustomer(s)
       THEN /\ out' = Reply("place_order_auto", s, "denied")
            /\ UNCHANGED rq
       ELSE IF NoItems(CartItems(s.user_id))
       THEN /\ out' = Reply("place_order_auto", s, "EmptyCart")
            /\ UNCHANGED rq
       ELSE /\ Room
            /\ rq' = Begin([Local EXCEPT !.pc = "po_dish",
                                         !.user_id = s.user_id,
                                         !.cart_items = CartItems(s.user_id),
                                         !.idx = 1])
            /\ UNCHANGED out
    /\ UNCHANGED <<db, now>>

\* Leaving the loop reads the clock (current_time), which no database access
\* separates from the last SELECT.
place_order_auto_dish(q) ==
    /\ Ready
    /\ q.pc = "po_dish"
    /\ LET dish_items == q.dish_items \o DishItem(q.cart_items[q.idx])
           last == q.idx = Len(q.cart_items)
       IN  rq' = Move(q, [q EXCEPT !.dish_items = dish_items,
                                   !.total = SumTotal(dish_items),
                                   !.idx = IF last THEN 0 ELSE q.idx + 1,
                                   !.ts = IF last THEN now ELSE 0,
                                   !.pc = IF last THEN "po_write" ELSE "po_dish"])
    /\ UNCHANGED <<db, now, out>>

place_order_auto_write(q) ==
    /\ Ready
    /\ q.pc = "po_write"
    /\ orders' = orders \o
          NewOrders(Len(orders), q.user_id, q.dish_items, q.total, q.ts)
    /\ cart' = ClearCart(q.user_id)
    /\ rq' = Finish(q)
    /\ out' = ReplyRef("place_order_auto", q.user_id, "payment_success",
                       FirstOrderId(Len(orders), q.dish_items), NULL)
    /\ UNCHANGED <<users, dishes, seq, now>>

\* ------------------------------------------------- transaction resolver
\* SELECT ... FROM orders WHERE id=?  (0 rows: FALSE)
RefFound(order_id) == order_id \in OrderIds

\* ... WHERE total_price = ? AND timestamp = ?
SameKey(o, total_price, timestamp) ==
    o.total_price = total_price /\ o.timestamp = timestamp

\* ... WHERE total_price = ? AND timestamp = ? AND user_id = ? ORDER BY id
RECURSIVE ExpandFrom(_, _, _, _)
ExpandFrom(i, total_price, timestamp, user_id) ==
    IF i > Len(orders) THEN <<>>
    ELSE (IF SameKey(orders[i], total_price, timestamp)
             /\ orders[i].user_id = user_id
          THEN <<orders[i]>> ELSE <<>>)
         \o ExpandFrom(i + 1, total_price, timestamp, user_id)

\* the SELECT without its `AND user_id = ?`
ExpandTransaction_AnyUser(total_price, timestamp, user_id) ==
    SelectSeq(orders, LAMBDA o : SameKey(o, total_price, timestamp))

ExpandTransaction(total_price, timestamp, user_id) ==
    ExpandFrom(1, total_price, timestamp, user_id)

\* SELECT dish_name, quantity, total
LineItems(rows) ==
    [i \in 1..Len(rows) |->
        [dish_name |-> rows[i].dish_name, quantity |-> rows[i].quantity,
         total |-> rows[i].total]]

\* render_template("payment_success.html", ...)
Page(user_id, order_id, total_price, status, delivery_partner, timestamp) ==
    [NoOut EXCEPT !.op = "payment_success", !.to = user_id, !.kind = "page",
                  !.ref = order_id,
                  !.page = << LineItems(ExpandTransaction(total_price, timestamp,
                                                          user_id)),
                              total_price, status, delivery_partner, timestamp >>]

\* the handler, emptying the caller's cart once the page is built
payment_success_ClearsCart(s, order_id) ==
    /\ Ready
    /\ IF s.user_id = 0
       THEN out' = Reply("payment_success", s, "login") /\ UNCHANGED cart
       ELSE IF order_id = 0
       THEN out' = Reply("payment_success", s, "NoOrder") /\ UNCHANGED cart
       ELSE IF ~RefFound(order_id)
       THEN /\ out' = ReplyRef("payment_success", s.user_id, "RefNotFound",
                               order_id, NULL)
            /\ UNCHANGED cart
       ELSE /\ out' = Page(s.user_id, order_id, orders[order_id].total_price,
                           orders[order_id].status,
                           orders[order_id].delivery_partner,
                           orders[order_id].timestamp)
            /\ cart' = ClearCart(s.user_id)
    /\ UNCHANGED <<users, dishes, orders, seq, now, rq>>

\* order_id 0: no order_id in the query string
payment_success(s, order_id) ==
    /\ Ready
    /\ IF s.user_id = 0
       THEN out' = Reply("payment_success", s, "login")
       ELSE IF order_id = 0
       THEN out' = Reply("payment_success", s, "NoOrder")
       ELSE IF ~RefFound(order_id)
       THEN out' = ReplyRef("payment_success", s.user_id, "RefNotFound",
                           order_id, NULL)
       ELSE out' = Page(s.user_id, order_id, orders[order_id].total_price,
                        orders[order_id].status,
                        orders[order_id].delivery_partner,
                        orders[order_id].timestamp)
    /\ UNCHANGED <<db, now, rq>>

payment_success_ref(s, order_id) ==
    /\ Ready
    /\ IF s.user_id = 0
       THEN /\ out' = Reply("payment_success", s, "login")
            /\ UNCHANGED rq
       ELSE IF order_id = 0
       THEN /\ out' = Reply("payment_success", s, "NoOrder")
            /\ UNCHANGED rq
       ELSE IF ~RefFound(order_id)
       THEN /\ out' = ReplyRef("payment_success", s.user_id, "RefNotFound",
                           order_id, NULL)
            /\ UNCHANGED rq
       ELSE /\ Room
            /\ rq' = Begin([Local EXCEPT !.pc = "ps_expand",
                                         !.user_id = s.user_id,
                                         !.order_id = order_id,
                                         !.total = orders[order_id].total_price,
                                         !.st = orders[order_id].status,
                                         !.dp = orders[order_id].delivery_partner,
                                         !.ts = orders[order_id].timestamp])
            /\ UNCHANGED out
    /\ UNCHANGED <<db, now>>

payment_success_expand(q) ==
    /\ Ready
    /\ q.pc = "ps_expand"
    /\ rq' = Finish(q)
    /\ out' = Page(q.user_id, q.order_id, q.total, q.st, q.dp, q.ts)
    /\ UNCHANGED <<db, now>>

\* ------------------------------------------------- order state machine
\* an UPDATE by the id of the first matching row instead of by the key
UpdateAssign_FirstOnly(delivery_user, total_price, timestamp) ==
    [i \in OrderIds |->
        IF /\ SameKey(orders[i], total_price, timestamp)
           /\ \A j \in 1..(i - 1) : ~SameKey(orders[j], total_price, timestamp)
        THEN [orders[i] EXCEPT !.delivery_partner = delivery_user,
                               !.status = "preparing"]
        ELSE orders[i]]

\* an UPDATE that leaves a status other than 'placed' as it is
UpdateAssign_PlacedOnly(delivery_user, total_price, timestamp) ==
    [i \in OrderIds |->
        IF SameKey(orders[i], total_price, timestamp)
        THEN [orders[i] EXCEPT !.delivery_partner = delivery_user,
                               !.status = IF @ = "placed" THEN "preparing" ELSE @]
        ELSE orders[i]]

\* an UPDATE with `AND delivery_partner IS NULL`: the first assign stays
UpdateAssign_Unassigned(delivery_user, total_price, timestamp) ==
    [i \in OrderIds |->
        IF SameKey(orders[i], total_price, timestamp)
           /\ orders[i].delivery_partner = NULL
        THEN [orders[i] EXCEPT !.delivery_partner = delivery_user,
                               !.status = "preparing"]
        ELSE orders[i]]

\* UPDATE orders SET delivery_partner = ?, status = 'preparing'
\* WHERE total_price = ? AND timestamp = ?
UpdateAssign(delivery_user, total_price, timestamp) ==
    [i \in OrderIds |->
        IF SameKey(orders[i], total_price, timestamp)
        THEN [orders[i] EXCEPT !.delivery_partner = delivery_user,
                               !.status = "preparing"]
        ELSE orders[i]]

\* an UPDATE that also stamps the rows with the time of the change
UpdateStatus_Stamp(new_status, total_price, timestamp) ==
    [i \in OrderIds |->
        IF SameKey(orders[i], total_price, timestamp)
        THEN [orders[i] EXCEPT !.status = new_status, !.timestamp = now]
        ELSE orders[i]]

\* UPDATE orders SET status = ? WHERE total_price = ? AND timestamp = ?
UpdateStatus(new_status, total_price, timestamp) ==
    [i \in OrderIds |->
        IF SameKey(orders[i], total_price, timestamp)
        THEN [orders[i] EXCEPT !.status = new_status]
        ELSE orders[i]]

\* the UPDATE without its `AND delivery_partner = ?`
UpdateStatusOf_AnyOwner(new_status, total_price, timestamp, delivery_user) ==
    [i \in OrderIds |->
        IF SameKey(orders[i], total_price, timestamp)
        THEN [orders[i] EXCEPT !.status = new_status]
        ELSE orders[i]]

\* UPDATE orders SET status = ?
\* WHERE total_price = ? AND timestamp = ? AND delivery_partner = ?
UpdateStatusOf(new_status, total_price, timestamp, delivery_user) ==
    [i \in OrderIds |->
        IF SameKey(orders[i], total_price, timestamp)
           /\ orders[i].delivery_partner = delivery_user
        THEN [orders[i] EXCEPT !.status = new_status]
        ELSE orders[i]]

admin_assign(s, order_id, delivery_user) ==
    /\ Ready
    /\ IF ~has_role(s, "admin")
       THEN /\ out' = Reply("admin_assign", s, "denied")
            /\ UNCHANGED orders
       ELSE IF ~RefFound(order_id)
       THEN /\ out' = ReplyRef("admin_assign", s.user_id, "OrderNotFound",
                               order_id, delivery_user)
            /\ UNCHANGED orders
       ELSE /\ orders' = UpdateAssign(delivery_user, orders[order_id].total_price,
                                      orders[order_id].timestamp)
            /\ out' = ReplyRef("admin_assign", s.user_id, "assigned", order_id,
                               delivery_user)
    /\ UNCHANGED <<users, dishes, cart, seq, now, rq>>

admin_assign_ref(s, order_id, delivery_user) ==
    /\ Ready
    /\ IF ~has_role(s, "admin")
       THEN /\ out' = Reply("admin_assign", s, "denied")
            /\ UNCHANGED rq
       ELSE IF ~RefFound(order_id)
       THEN /\ out' = ReplyRef("admin_assign", s.user_id, "OrderNotFound",
                               order_id, delivery_user)
            /\ UNCHANGED rq
       ELSE /\ Room
            /\ rq' = Begin([Local EXCEPT !.pc = "assign_write",
                                         !.user_id = s.user_id,
                                         !.order_id = order_id,
                                         !.val = delivery_user,
                                         !.total = orders[order_id].total_price,
                                         !.ts = orders[order_id].timestamp])
            /\ UNCHANGED out
    /\ UNCHANGED <<db, now>>

admin_assign_write(q) ==
    /\ Ready
    /\ q.pc = "assign_write"
    /\ orders' = UpdateAssign(q.val, q.total, q.ts)
    /\ rq' = Finish(q)
    /\ out' = ReplyRef("admin_assign", q.user_id, "assigned", q.order_id, q.val)
    /\ UNCHANGED <<users, dishes, cart, seq, now>>

\* the handler with its success flash after the `if`, not inside it
admin_update_status_FlashAlways(s, order_id, new_status) ==
    /\ Ready
    /\ IF ~has_role(s, "admin")
       THEN /\ out' = Reply("admin_update_status", s, "denied")
            /\ UNCHANGED orders
       ELSE /\ orders' = IF RefFound(order_id)
                         THEN UpdateStatus(new_status, orders[order_id].total_price,
                                           orders[order_id].timestamp)
                         ELSE orders
            /\ out' = ReplyRef("admin_update_status", s.user_id, "updated",
                               order_id, new_status)
    /\ UNCHANGED <<users, dishes, cart, seq, now, rq>>

admin_update_status(s, order_id, new_status) ==
    /\ Ready
    /\ IF ~has_role(s, "admin")
       THEN /\ out' = Reply("admin_update_status", s, "denied")
            /\ UNCHANGED orders
       ELSE IF ~RefFound(order_id)
       THEN /\ out' = ReplyRef("admin_update_status", s.user_id, "OrderNotFound",
                               order_id, new_status)
            /\ UNCHANGED orders
       ELSE /\ orders' = UpdateStatus(new_status, orders[order_id].total_price,
                                      orders[order_id].timestamp)
            /\ out' = ReplyRef("admin_update_status", s.user_id, "updated",
                               order_id, new_status)
    /\ UNCHANGED <<users, dishes, cart, seq, now, rq>>

admin_update_status_ref(s, order_id, new_status) ==
    /\ Ready
    /\ IF ~has_role(s, "admin")
       THEN /\ out' = Reply("admin_update_status", s, "denied")
            /\ UNCHANGED rq
       ELSE IF ~RefFound(order_id)
       THEN /\ out' = ReplyRef("admin_update_status", s.user_id, "OrderNotFound",
                               order_id, new_status)
            /\ UNCHANGED rq
       ELSE /\ Room
            /\ rq' = Begin([Local EXCEPT !.pc = "status_write",
                                         !.user_id = s.user_id,
                                         !.order_id = order_id,
                                         !.val = new_status,
                                         !.total = orders[order_id].total_price,
                                         !.ts = orders[order_id].timestamp])
            /\ UNCHANGED out
    /\ UNCHANGED <<db, now>>

admin_update_status_write(q) ==
    /\ Ready
    /\ q.pc = "status_write"
    /\ orders' = UpdateStatus(q.val, q.total, q.ts)
    /\ rq' = Finish(q)
    /\ out' = ReplyRef("admin_update_status", q.user_id, "updated", q.order_id,
                       q.val)
    /\ UNCHANGED <<users, dishes, cart, seq, now>>

\* SELECT total_price, timestamp FROM orders WHERE id=? AND delivery_partner=?
AssignedRef(order_id, delivery_user) ==
    RefFound(order_id) /\ orders[order_id].delivery_partner = delivery_user

delivery_update_status(s, order_id, new_status) ==
    /\ Ready
    /\ IF ~has_role(s, "delivery")
       THEN /\ out' = Reply("delivery_update_status", s, "denied")
            /\ UNCHANGED orders
       ELSE IF ~AssignedRef(order_id, s.username)
       THEN /\ out' = ReplyRef("delivery_update_status", s.user_id, "NotAssigned",
                               order_id, new_status)
            /\ UNCHANGED orders
       ELSE /\ orders' = UpdateStatusOf(new_status, orders[order_id].total_price,
                                        orders[order_id].timestamp, s.username)
            /\ out' = ReplyRef("delivery_update_status", s.user_id, "updated",
                               order_id, new_status)
    /\ UNCHANGED <<users, dishes, cart, seq, now, rq>>

delivery_update_status_ref(s, order_id, new_status) ==
    /\ Ready
    /\ IF ~has_role(s, "delivery")
       THEN /\ out' = Reply("delivery_update_status", s, "denied")
            /\ UNCHANGED rq
       ELSE IF ~AssignedRef(order_id, s.username)
       THEN /\ out' = ReplyRef("delivery_update_status", s.user_id, "NotAssigned",
                               order_id, new_status)
            /\ UNCHANGED rq
       ELSE /\ Room
            /\ rq' = Begin([Local EXCEPT !.pc = "delivery_write",
                                         !.user_id = s.user_id,
                                         !.username = s.username,
                                         !.order_id = order_id,
                                         !.val = new_status,
                                         !.total = orders[order_id].total_price,
                                         !.ts = orders[order_id].timestamp])
            /\ UNCHANGED out
    /\ UNCHANGED <<db, now>>

delivery_update_status_write(q) ==
    /\ Ready
    /\ q.pc = "delivery_write"
    /\ orders' = UpdateStatusOf(q.val, q.total, q.ts, q.username)
    /\ rq' = Finish(q)
    /\ out' = ReplyRef("delivery_update_status", q.user_id, "updated",
                       q.order_id, q.val)
    /\ UNCHANGED <<users, dishes, cart, seq, now>>

\* --------------------------------------------------- order summaries
\* GROUP BY total_price, timestamp alone
GroupKey_Key(o) == <<o.total_price, o.timestamp>>

\* GROUP BY total_price, timestamp, delivery_partner, status
GroupKey(o) == <<o.total_price, o.timestamp, o.delivery_partner, o.status>>

\* SELECT username FROM users WHERE id=?; 'Unknown User' without a row
CustomerName(user_id) ==
    LET hit == {u \in users : u.user_id = user_id}
    IN  IF hit = {} THEN "Unknown User" ELSE (CHOOSE u \in hit : TRUE).username

\* the columns of a summary row, all taken from the one row of the group
\* that SQLite picks for the bare columns
SummaryRow(i) ==
    [id |-> i, user_id |-> orders[i].user_id,
     customer_username |-> CustomerName(orders[i].user_id),
     total_price |-> orders[i].total_price, status |-> orders[i].status,
     delivery_partner |-> orders[i].delivery_partner,
     timestamp |-> orders[i].timestamp]

\* The results SELECT ... GROUP BY ... ORDER BY timestamp DESC may return
\* over the rows ids: one row per group, from any member of the group, rows
\* of equal timestamp in any order.
Summaries(ids) ==
    LET n == Cardinality({GroupKey(orders[i]) : i \in ids})
    IN  { [k \in 1..n |-> SummaryRow(p[k])] :
            p \in { f \in [1..n -> ids] :
                     /\ \A k, l \in 1..n :
                           k # l => GroupKey(orders[f[k]]) # GroupKey(orders[f[l]])
                     /\ \A k, l \in 1..n :
                           k < l => orders[f[k]].timestamp >= orders[f[l]].timestamp } }

\* SELECT username FROM users WHERE role='delivery'
DeliveryList == {u.username : u \in {x \in users : x.role = "delivery"}}

ViewPage(op, s, rows, delivery_list) ==
    [NoOut EXCEPT !.op = op, !.to = s.user_id, !.kind = "page",
                  !.page = <<rows, delivery_list>>]

\* ... FROM orders WHERE user_id=?
OrdersOf(user_id) == {i \in OrderIds : orders[i].user_id = user_id}

\* ... FROM orders o JOIN users u ON o.user_id = u.id WHERE o.delivery_partner = ?
AssignedTo(delivery_user) ==
    {i \in OrderIds : /\ orders[i].delivery_partner = delivery_user
                      /\ \E u \in users : u.user_id = orders[i].user_id}

profile(s) ==
    /\ Ready
    /\ IF s.user_id = 0
       THEN out' = Reply("profile", s, "login")
       ELSE \E rows \in Summaries(OrdersOf(s.user_id)) :
               out' = ViewPage("profile", s, rows, {})
    /\ UNCHANGED <<db, now, rq>>

admin_dashboard(s) ==
    /\ Ready
    /\ IF ~has_role(s, "admin")
       THEN out' = Reply("admin_dashboard", s, "denied")
       ELSE \E rows \in Summaries(OrderIds) :
               out' = ViewPage("admin_dashboard", s, rows, DeliveryList)
    /\ UNCHANGED <<db, now, rq>>

delivery_dashboard(s) ==
    /\ Ready
    /\ IF ~has_role(s, "delivery")
       THEN out' = Reply("delivery_dashboard", s, "denied")
       ELSE \E rows \in Summaries(AssignedTo(s.username)) :
               out' = ViewPage("delivery_dashboard", s, rows, {})
    /\ UNCHANGED <<db, now, rq>>

\* ------------------------------------------------------ specifications
\* the handlers of a single statement, and the clock
Single ==
    \/ Tick
    \/ \E s \in Sessions, n \in DishNames, p \in Prices : admin_menu(s, n, p)
    \/ \E s \in Sessions, d \in 1..MaxDishId : admin_delete_dish(s, d)
    \/ \E s \in Sessions, c \in 1..MaxCartId : remove_from_cart(s, c)

\* every request served alone, from its first statement to its response
Whole ==
    \/ \E s \in Sessions, d \in 1..MaxDishId : add_to_cart(s, d)
    \/ \E s \in Sessions : place_order_auto(s)
    \/ \E s \in Sessions, o \in {0} \cup OrderRefs : payment_success(s, o)
    \/ \E s \in Sessions, o \in OrderRefs, p \in PartnerNames :
          admin_assign(s, o, p)
    \/ \E s \in Sessions, o \in OrderRefs, v \in FreeStatuses :
          admin_update_status(s, o, v)
    \/ \E s \in Sessions, o \in OrderRefs, v \in FreeStatuses :
          delivery_update_status(s, o, v)

\* The interleaved specifications leave out the requests the role guard
\* turns away: they make no database access.
Admins == {s \in Sessions : has_role(s, "admin")}

Couriers == {s \in Sessions : has_role(s, "delivery")}

Customers == {s \in Sessions : IsCustomer(s)}

\* the requests to the order state machine, one database access at a time
Machine ==
    \/ \E s \in Admins, o \in OrderRefs, p \in PartnerNames :
          admin_assign_ref(s, o, p)
    \/ \E q \in InFlight : admin_assign_write(q)
    \/ \E s \in Admins, o \in OrderRefs, v \in FreeStatuses :
          admin_update_status_ref(s, o, v)
    \/ \E q \in InFlight : admin_update_status_write(q)
    \/ \E s \in Couriers, o \in OrderRefs, v \in FreeStatuses :
          delivery_update_status_ref(s, o, v)
    \/ \E q \in InFlight : delivery_update_status_write(q)

\* the clock and the menu
Menu ==
    \/ Tick
    \/ \E s \in Admins, n \in DishNames, p \in Prices : admin_menu(s, n, p)

\* what fills the ledger, each request served alone
Fill ==
    \/ \E s \in Customers, d \in 1..MaxDishId : add_to_cart(s, d)
    \/ \E s \in Customers : place_order_auto(s)

\* the cart and checkout requests, one database access at a time
Checkout ==
    \/ \E s \in Customers, d \in 1..MaxDishId : add_to_cart_read(s, d)
    \/ \E q \in InFlight : add_to_cart_write(q)
    \/ \E s \in Customers, c \in 1..MaxCartId : remove_from_cart(s, c)
    \/ \E s \in Customers : place_order_auto_cart(s)
    \/ \E q \in InFlight : place_order_auto_dish(q)
    \/ \E q \in InFlight : place_order_auto_write(q)

\* the clock and the menu, any text in the price field
Catalog ==
    \/ Tick
    \/ \E s \in Admins, n \in DishNames, p \in FormPrices : admin_menu(s, n, p)

\* the requests to the order state machine of the sessions the role guard
\* lets through, each served alone
Serve ==
    \/ \E s \in Admins, o \in OrderRefs, p \in PartnerNames :
          admin_assign(s, o, p)
    \/ \E s \in Admins, o \in OrderRefs, v \in FreeStatuses :
          admin_update_status(s, o, v)
    \/ \E s \in Couriers, o \in OrderRefs, v \in FreeStatuses :
          delivery_update_status(s, o, v)

\* the pages
Views ==
    \/ \E s \in Sessions : profile(s)
    \/ \E s \in Sessions : admin_dashboard(s)
    \/ \E s \in Sessions : delivery_dashboard(s)
    \/ \E s \in Sessions, o \in {0} \cup OrderRefs : payment_success(s, o)

Next == Single \/ Whole \/ Deliver

NextRace == Menu \/ Fill \/ Machine \/ Deliver

NextCart == Menu \/ Checkout \/ Deliver

NextView == Menu \/ Fill \/ Serve \/ Views \/ Deliver

NextPrice == Catalog \/ Fill \/ Deliver

\* every request served alone, from its first statement to its response
Spec == Init /\ [][Next]_vars

\* requests to the order state machine interleaved, over whole checkouts
SpecRace == Init /\ [][NextRace]_vars

\* cart and checkout requests interleaved
SpecCart == Init /\ [][NextCart]_vars

\* the pages read while whole requests change the ledger
SpecView == Init /\ [][NextView]_vars

\* the menu filled from any price text, and whole cart and checkout requests
SpecPrice == Init /\ [][NextPrice]_vars

\* ================================================================ claims
UserName(user_id) == (CHOOSE u \in users : u.user_id = user_id).username

\* the ids of the rows inserted by the checkout that inserted row r
Event(r) == {i \in OrderIds : orders[i].ev = orders[r].ev}

\* the ids of the rows sharing row r's (total_price, timestamp)
KeyGroup(r) ==
    {i \in OrderIds : SameKey(orders[i], orders[r].total_price, orders[r].timestamp)}

Uniform(ids) ==
    \A i, j \in ids :
        /\ orders[i].status = orders[j].status
        /\ orders[i].delivery_partner = orders[j].delivery_partner

Transition ==
    /\ out'.op \in {"admin_assign", "admin_update_status", "delivery_update_status"}
    /\ out'.kind \in {"assigned", "updated"}

Placed == out'.op = "place_order_auto" /\ out'.kind = "payment_success"

\* C1: right after an assign, an admin setStatus or a delivery setStatus
\* completes, all rows sharing a (total_price, timestamp) key have the same
\* status and the same delivery_partner.
C1_KeyGroupsUniform ==
    [][Transition => (\A r \in OrderIds : Uniform(KeyGroup(r)))']_vars

\* C2: in every state, all rows inserted by one checkout have the same status
\* and the same delivery_partner.
C2_EventsUniform == \A r \in OrderIds : Uniform(Event(r))

\* a checkout of two rows that an assign, then a setStatus has moved
C2_Witness ==
    \E r \in OrderIds :
        /\ Cardinality(Event(r)) = 2
        /\ orders[r].status = "delivered"
        /\ orders[r].delivery_partner # NULL

PriceOf(dish_id) == (CHOOSE d \in dishes : d.id = dish_id).price

\* C3: a checkout of a cart of N >= 1 entries appends N rows, one per entry,
\* each with total = price * quantity, all with the same timestamp, with
\* total_price the sum of the N totals, status placed, delivery_partner NULL.
C3_RowPerEntry ==
    [][Placed =>
        LET items == CartItems(out'.to)
            n == Len(orders)
        IN  /\ Len(orders') = n + Len(items)
            /\ \A k \in 1..Len(items) :
                  /\ orders'[n + k].dish_id = items[k].dish_id
                  /\ orders'[n + k].quantity = items[k].quantity
                  /\ orders'[n + k].total =
                        PriceOf(items[k].dish_id) * items[k].quantity
                  /\ orders'[n + k].timestamp = orders'[n + 1].timestamp
                  /\ orders'[n + k].total_price =
                        SumTotal(SubSeq(orders', n + 1, n + Len(items)))
                  /\ orders'[n + k].status = "placed"
                  /\ orders'[n + k].delivery_partner = NULL]_vars

\* C4: for every row r, expanding r's key scoped to r's owner returns exactly
\* the rows inserted by the checkout that inserted r.
C4_ExpandIsEvent ==
    \A r \in OrderIds :
        LET rows == ExpandTransaction(orders[r].total_price, orders[r].timestamp,
                                      orders[r].user_id)
        IN  {rows[k].id : k \in 1..Len(rows)} = Event(r)

\* C5: a delivery actor's setStatus changes no row whose delivery_partner is
\* not the actor at the write; a request whose row is not assigned to the
\* actor at the read reports NotAssigned and leaves the ledger as it is, and
\* only a request whose row is assigned at the read goes on to write.
C5_OwnershipIsolation ==
    [][/\ (out'.op = "delivery_update_status" /\ out'.kind = "updated") =>
            /\ Len(orders') = Len(orders)
            /\ \A i \in OrderIds :
                  orders[i].delivery_partner # UserName(out'.to)
                      => orders'[i] = orders[i]
       /\ (out'.op = "delivery_update_status" /\ out'.kind = "NotAssigned") =>
            /\ ~AssignedRef(out'.ref, UserName(out'.to))
            /\ orders' = orders
       /\ \A q \in BagToSet(rq') :
            (q.pc = "delivery_write" /\ CopiesIn(q, rq') > CopiesIn(q, rq))
                => AssignedRef(q.order_id, q.username)]_vars

\* the actor's write came after an admin gave the order to somebody else
C5_Witness ==
    /\ out.op = "delivery_update_status"
    /\ out.kind = "updated"
    /\ orders[out.ref].delivery_partner = "ghost"
    /\ orders[out.ref].status = "preparing"

\* C6: after an assign on a reference that resolves, every row of the
\* referenced checkout has status preparing and the delivery_partner named.
C6_AssignResets ==
    [][(out'.op = "admin_assign" /\ out'.kind = "assigned") =>
            \A i \in Event(out'.ref) :
                /\ orders'[i].status = "preparing"
                /\ orders'[i].delivery_partner = out'.val]_vars

\* an assign has answered while a setStatus read before it waits to write
C6_Witness ==
    /\ out.op = "admin_assign"
    /\ out.kind = "assigned"
    /\ Cardinality(Event(out.ref)) = 2
    /\ \E q \in InFlight : q.pc \in {"status_write", "delivery_write"}

\* C7: a checkout that does not fail with EmptyCart returns the id of the
\* first row it inserted.
C7_ReturnsFirstId ==
    [][Placed =>
        /\ Len(orders') > Len(orders)
        /\ out'.ref = Len(orders) + 1]_vars

\* C8: a checkout by a user with no cart row reports EmptyCart and changes
\* neither the ledger, nor the catalog, nor any cart.
C8_EmptyCart ==
    [][(out'.op = "place_order_auto" /\ out'.kind # "denied") =>
        /\ CartItems(out'.to) = <<>> =>
              (out'.kind = "EmptyCart" /\ UNCHANGED <<orders, dishes, cart>>)
        /\ out'.kind = "EmptyCart" => CartItems(out'.to) = <<>>]_vars

\* EmptyCart reported while the ledger and another cart are not empty
C8_Witness ==
    /\ out.op = "place_order_auto"
    /\ out.kind = "EmptyCart"
    /\ orders # <<>>
    /\ cart # {}

\* C9: after a checkout by a user that does not fail with EmptyCart the user
\* has no cart row and the cart rows of every other user are as before.
C9_ClearsOwnCart ==
    [][Placed =>
        /\ \A c \in cart' : c.user_id # out'.to
        /\ {c \in cart' : c.user_id # out'.to}
              = {c \in cart : c.user_id # out'.to}]_vars

\* a checkout has answered and left the other customer's cart row
C9_Witness ==
    /\ out.op = "place_order_auto"
    /\ out.kind = "payment_success"
    /\ out.ref # 0
    /\ cart # {}

Frozen(o) ==
    <<o.id, o.user_id, o.dish_id, o.dish_name, o.quantity, o.total,
      o.total_price, o.timestamp>>

\* C10: no step deletes a row or changes a row's id, user_id, dish_id,
\* dish_name, quantity, total, total_price or timestamp; only a checkout
\* changes the number of rows.
C10_AppendOnly ==
    [][/\ Len(orders') >= Len(orders)
       /\ \A i \in OrderIds : Frozen(orders'[i]) = Frozen(orders[i])
       /\ Len(orders') # Len(orders) => Placed]_vars

\* two checkouts in the ledger, the first one moved by a setStatus
C10_Witness ==
    /\ Len(orders) = 2
    /\ orders[1].ev # orders[2].ev
    /\ orders[1].status = "delivered"

\* the role stored in the session of user_id (NULL: nobody logged in)
RoleOf(user_id) ==
    IF user_id = 0 THEN NULL
    ELSE (CHOOSE u \in users : u.user_id = user_id).role

\* C11: a step changes a delivery_partner only in an admin's assign, a status
\* only in an admin's assign or setStatus or a delivery actor's setStatus, the
\* rows of the ledger and of the cart only in a cart or checkout request of a
\* logged-in caller who is not staff, the catalog only in an admin's menu
\* request; a request turned away changes none of ledger, cart and catalog.
C11_RoleGating ==
    [][/\ (\E i \in OrderIds :
              orders'[i].delivery_partner # orders[i].delivery_partner) =>
            (out'.op = "admin_assign" /\ RoleOf(out'.to) = "admin")
       /\ (\E i \in OrderIds : orders'[i].status # orders[i].status) =>
            \/ /\ out'.op \in {"admin_assign", "admin_update_status"}
               /\ RoleOf(out'.to) = "admin"
            \/ /\ out'.op = "delivery_update_status"
               /\ RoleOf(out'.to) = "delivery"
       /\ (Len(orders') # Len(orders) \/ cart' # cart) =>
            /\ out'.op \in {"add_to_cart", "remove_from_cart", "place_order_auto"}
            /\ out'.to # 0
            /\ RoleOf(out'.to) \notin {"admin", "delivery"}
       /\ dishes' # dishes =>
            /\ out'.op \in {"admin_menu", "admin_delete_dish"}
            /\ RoleOf(out'.to) = "admin"
       /\ out'.kind = "denied" => UNCHANGED <<orders, cart, dishes>>
       /\ (/\ out'.op \in {"admin_menu", "admin_delete_dish", "admin_assign",
                           "admin_update_status"}
           /\ RoleOf(out'.to) # "admin") => out'.kind = "denied"
       /\ (out'.op = "delivery_update_status" /\ RoleOf(out'.to) # "delivery")
            => out'.kind = "denied"
       /\ (/\ out'.op \in {"add_to_cart", "remove_from_cart", "place_order_auto"}
           /\ (out'.to = 0 \/ RoleOf(out'.to) \in {"admin", "delivery"}))
            => out'.kind = "denied"]_vars

\* the delivery actor asked for an assign on a ledger with an open order and
\* was turned away
C11_Witness ==
    /\ out.op = "admin_assign"
    /\ out.kind = "denied"
    /\ RoleOf(out.to) = "delivery"
    /\ \E i \in OrderIds : orders[i].delivery_partner = NULL
    /\ cart # {}

\* C12: an admin's assign or setStatus on a reference that is the id of no
\* row reports OrderNotFound and leaves the ledger as it is; OrderNotFound is
\* reported for no reference that is the id of a row.
C12_UnknownReference ==
    [][(/\ out'.op \in {"admin_assign", "admin_update_status"}
        /\ out'.kind # "denied") =>
            /\ ~RefFound(out'.ref) =>
                  /\ out'.kind = "OrderNotFound"
                  /\ orders' = orders
            /\ out'.kind = "OrderNotFound" => ~RefFound(out'.ref)]_vars

\* OrderNotFound reported on a ledger whose only row is assigned
C12_Witness ==
    /\ out.op \in {"admin_assign", "admin_update_status"}
    /\ out.kind = "OrderNotFound"
    /\ orders # <<>>
    /\ orders[1].delivery_partner # NULL

\* the rows of cart C of one user for one dish
EntriesIn(C, user_id, dish_id) ==
    {c \in C : c.user_id = user_id /\ c.dish_id = dish_id}

\* the quantity C holds of one dish for one user
QuantityIn(C, user_id, dish_id) ==
    LET hit == EntriesIn(C, user_id, dish_id)
    IN  IF hit = {} THEN 0 ELSE (CHOOSE c \in hit : TRUE).quantity

\* C13: after every step the cart holds at most one row per (user_id,
\* dish_id) and every row has quantity >= 1; and an add-to-cart whose write
\* completes, the row it read (if any) still there, leaves one row for its
\* (user, dish), of quantity one more than the user held of the dish.
C13_CartUnique ==
    [][/\ \A c1, c2 \in cart' :
            (c1.user_id = c2.user_id /\ c1.dish_id = c2.dish_id) => c1 = c2
       /\ \A c \in cart' : c.quantity >= 1
       /\ \A q \in InFlight :
            (/\ q.pc = "add_write"
             /\ CopiesIn(q, rq') < CopiesIn(q, rq)
             /\ (q.cart_id = 0 \/ \E c \in cart : c.id = q.cart_id)) =>
                /\ Cardinality(EntriesIn(cart', q.user_id, q.dish_id)) = 1
                /\ QuantityIn(cart', q.user_id, q.dish_id)
                      = QuantityIn(cart, q.user_id, q.dish_id) + 1]_vars

\* C14: the line items of an order page are those of the expansion of the
\* referenced row's key scoped to the caller: rows of the caller only, in
\* ascending id order.
C14_ViewScoped ==
    [][(out'.op = "payment_success" /\ out'.kind = "page") =>
        LET rows == ExpandTransaction(orders[out'.ref].total_price,
                                      orders[out'.ref].timestamp, out'.to)
        IN  /\ out'.page[1] = LineItems(rows)
            /\ \A k \in 1..Len(rows) : rows[k].user_id = out'.to
            /\ \A k, l \in 1..Len(rows) : k < l => rows[k].id < rows[l].id]_vars

\* a page with a line item, shown while another user's row has the same key
C14_Witness ==
    /\ out.op = "payment_success"
    /\ out.kind = "page"
    /\ out.page[1] # <<>>
    /\ \E i \in OrderIds :
          /\ orders[i].user_id # out.to
          /\ SameKey(orders[i], orders[out.ref].total_price,
                     orders[out.ref].timestamp)

\* the rows in the scope of a summary page: the caller's, all, or those
\* assigned to the caller
ScopeOf(op, user_id) ==
    IF op = "profile" THEN {i \in OrderIds : orders[i].user_id = user_id}
    ELSE IF op = "admin_dashboard" THEN OrderIds
    ELSE {i \in OrderIds : orders[i].delivery_partner = UserName(user_id)}

Combination(o) == <<o.total_price, o.timestamp, o.delivery_partner, o.status>>

C16_NonNegative ==
    /\ \A d \in dishes : d.price >= 0
    /\ \A i \in OrderIds : orders[i].total >= 0 /\ orders[i].total_price >= 0

UserIds == {u.user_id : u \in users}

\* C17: a step that leaves the ledger as it is leaves the expansion of every
\* key for every owner as it is; an order page shows the expansion of the
\* ledger as it stands, and the request for it changes no table.
C17_Idempotent ==
    [][/\ orders' = orders =>
            \A r \in OrderIds, u \in UserIds :
                ExpandTransaction(orders[r].total_price, orders[r].timestamp, u)'
                    = ExpandTransaction(orders[r].total_price,
                                        orders[r].timestamp, u)
       /\ out'.op = "payment_success" =>
            /\ UNCHANGED <<users, dishes, cart, orders, seq>>
            /\ out'.kind = "page" =>
                  out'.page[1] =
                      LineItems(ExpandTransaction(orders[out'.ref].total_price,
                                                  orders[out'.ref].timestamp,
                                                  out'.to))]_vars

\* a page of the two line items of two checkouts of one key
C17_Witness ==
    /\ out.op = "payment_success"
    /\ out.kind = "page"
    /\ Len(out.page[1]) = 2
    /\ orders[1].ev # orders[2].ev

\* C18: the write of every assign in flight, whatever other assign read or
\* wrote the same transaction meanwhile, reports success and leaves every
\* row of the referenced checkout with status preparing and the
\* delivery_partner of this assign: the last write wins on the whole group.
C18_LastWriteWins ==
    [][\A q \in InFlight :
          (q.pc = "assign_write" /\ CopiesIn(q, rq') < CopiesIn(q, rq)) =>
              /\ out' = ReplyRef("admin_assign", q.user_id, "assigned",
                                 q.order_id, q.val)
              /\ \A i \in Event(q.order_id) :
                    /\ orders'[i].status = "preparing"
                    /\ orders'[i].delivery_partner = q.val]_vars

\* one assign has written its partner on a checkout of two rows while an
\* assign of the other partner to the same checkout waits to write
C18_Witness ==
    /\ out.op = "admin_assign"
    /\ out.kind = "assigned"
    /\ Cardinality(Event(out.ref)) = 2
    /\ \E q \in InFlight :
          /\ q.pc = "assign_write"
          /\ q.val # out.val
          /\ q.order_id \in Event(out.ref)

\* C19: when a delivery actor's setStatus reports success, every row of the
\* referenced checkout has the status it asked for.
C19_SuccessImpliesEffect ==
    [][(out'.op = "delivery_update_status" /\ out'.kind = "updated") =>
            \A i \in Event(out'.ref) : orders'[i].status = out'.val]_vars

\* C20: an assign or an admin setStatus that succeeds on a reference whose
\* row belongs to user U leaves the status and the delivery_partner of every
\* row of every other user as they were.
C20_NoCrossUser ==
    [][(/\ out'.op \in {"admin_assign", "admin_update_status"}
        /\ out'.kind \in {"assigned", "updated"}) =>
            \A i \in OrderIds :
                orders[i].user_id # orders[out'.ref].user_id =>
                    /\ orders'[i].status = orders[i].status
                    /\ orders'[i].delivery_partner
                          = orders[i].delivery_partner]_vars

\* C21: when a checkout that found the dish of every entry it read writes,
\* every cart row it deletes is a line item it inserts, with the row's dish
\* and quantity, and every row of the caller that was not in its cart read
\* is still in the cart.
C21_NoEntryLost ==
    [][\A q \in InFlight :
          (/\ q.pc = "po_write"
           /\ CopiesIn(q, rq') < CopiesIn(q, rq)
           /\ Len(q.dish_items) = Len(q.cart_items)) =>
              \A c \in {x \in cart : x.user_id = q.user_id} :
                  /\ c \notin cart' =>
                        \E i \in (Len(orders) + 1)..Len(orders') :
                            /\ orders'[i].dish_id = c.dish_id
                            /\ orders'[i].quantity = c.quantity
                  /\ (\A k \in 1..Len(q.cart_items) :
                          q.cart_items[k].dish_id # c.dish_id) => c \in cart']_vars

\* C22: every cart row gives rise to at most one row of the ledger: the
\* ledger never has more rows than cart rows were ever created.
C22_OrderedOnce == Len(orders) <= seq.cart

\* C23: the delivery_partner of every row is NULL or the username of a user
\* whose role is delivery.
C23_ValidPartner ==
    \A i \in OrderIds :
        \/ orders[i].delivery_partner = NULL
        \/ \E u \in users : /\ u.username = orders[i].delivery_partner
                            /\ u.role = "delivery"

\* C24: an order page asked for with the id of a row of another user is
\* answered as the id of no row is: reference not found, and no total,
\* status, delivery_partner or timestamp of the row.
C24_NothingRevealed ==
    [][(/\ out'.op = "payment_success"
        /\ out'.to # 0
        /\ out'.ref \in OrderIds
        /\ orders[out'.ref].user_id # out'.to) =>
            /\ out'.kind = "RefNotFound"
            /\ out'.page = <<>>]_vars
====
